---- MODULE Spec2Model ----
(***************************************************************************)
(* A state-machine model of the issue list view controller                 *)
(* (IssueListOverview, app/views/issueList/overview.tsx): the list fetch,  *)
(* the realtime poller, the URL synchronisation and the React update rule  *)
(* (componentDidUpdate).                                                   *)
(*                                                                         *)
(* The controller's code is sequential JavaScript, so every method is an   *)
(* operator from a "world" record w (props, state, instance fields and the *)
(* collaborators' state) to the world after the call, and an action of the *)
(* model is one task of the event loop: an event handler or a request      *)
(* callback, followed by the React updates it causes.                      *)
(***************************************************************************)
EXTENDS Integers, Sequences, FiniteSets, TLC

VARIABLES
    props,        \* this.props: location, selection, savedSearch, savedSearchLoading
    state,        \* this.state
    lastRequest,  \* this._lastRequest: 0 for null, else the request it refers to
    poller,       \* this._poller: active flag, endpoint, its own request
    requests,     \* the api client's unfinished list requests, oldest first
    store,        \* GroupStore / StreamManager: the ordered item identifiers
    cookie,       \* the 'realtimeActive' cookie
    browser,      \* the browserHistory.push / replace of the last task, if any
    mounted,      \* FALSE once componentWillUnmount has run
    loads,        \* how many loads of the tags and of the member list are under way
    issued,       \* history: the request the newest fetchData() sent, 0 once it completed
    prior,        \* history: the store's items when that fetchData() was called
                  \* (kept while the mounted controller awaits the request)
    obs           \* history: what the last task did (reset by every action)

vars == <<props, state, lastRequest, poller, requests, store, cookie, browser,
          mounted, loads, issued, prior, obs>>

----------------------------------------------------------------------------
(* Bounds of the model *)

\* list requests that may be unfinished at one time
MaxOutstanding == 2
\* React updates one task may nest (React itself stops at 50)
MaxUpdates == 4
\* the longest count header value the header specification draws
MaxHeaderLen == 2
\* the last page the pagination goes to
MaxPage == 2
\* loads of the tags, and of the member list, that may be under way at one time
MaxLoads == 2

----------------------------------------------------------------------------
(* JavaScript values *)

Null == "<null>"
Undefined == "<undefined>"
EmptyObject == <<>>
\* the empty string as a Link header value (a header is a sequence of links)
NoLinks == <<>>

\* arrays are written as strings in brackets
Arrays == {"[]", "[1]", "[2]", "[14d,24h]"}
\* typeof v === 'string'
typeofString(v) == v \notin {Undefined, Null} \cup Arrays

defined(v) == v # Undefined /\ v # Null
Truthy(v) == v # Undefined /\ v # Null /\ v # ""

\* o[k], undefined when the key is missing
Get(o, k) == IF k \in DOMAIN o THEN o[k] ELSE Undefined
\* {...a, ...b}
Spread(a, b) == b @@ a
\* delete o[k]
Delete(o, k) == [x \in DOMAIN o \ {k} |-> o[x]]
\* lodash pickBy(o, v => defined(v))
pickDefined(o) == LET keep == {x \in DOMAIN o : defined(o[x])} IN [x \in keep |-> o[x]]

----------------------------------------------------------------------------
(* Program constants *)

DEFAULT_QUERY == "is:unresolved"
DEFAULT_SORT == "date"
DEFAULT_GRAPH_STATS_PERIOD == "24h"
DYNAMIC_COUNTS_STATS_PERIODS == {"14d", "24h", "auto"}

OrgSlug == "org"
IssuesPath == <<"organizations", OrgSlug, "issues">>
SavedSearchPath(id) == <<"organizations", OrgSlug, "issues", "searches", id>>

----------------------------------------------------------------------------
(* The values the environment supplies *)

\* global selections: one relative period, one absolute range, of all projects
SelRelative ==
    [projects |-> "[]", environments |-> "[]",
     datetime |-> [period |-> "14d", start |-> Null, end |-> Null, utc |-> Null]]
SelAbsolute ==
    [projects |-> "[]", environments |-> "[]",
     datetime |-> [period |-> Null, start |-> "local:d1", end |-> "local:d2", utc |-> Null]]
Selections == {SelRelative, SelAbsolute}
\* the projects a global selection may be of: all, or project 1
ProjectChoices == {"[]", "[1]"}

NoSavedSearch == [isNull |-> TRUE, id |-> Undefined, query |-> Undefined, projectId |-> Undefined]
SavedSearchA == [isNull |-> FALSE, id |-> "7", query |-> "is:assigned", projectId |-> "2"]
SavedSearchList == {SavedSearchA}
\* a saved search of the whole organization: no project
SavedSearchOrg == [isNull |-> FALSE, id |-> "8", query |-> "is:ignored", projectId |-> Undefined]

\* issues: identifier and, for some, the event a search matched
Item1 == [id |-> "g1", matchingEventId |-> Undefined]
Item2 == [id |-> "g2", matchingEventId |-> "e9"]
\* an issue first seen after the list was fetched
Item3 == [id |-> "g3", matchingEventId |-> Undefined]

\* Link headers: a previous and a next link, each saying whether it has results
Link(rel, results, cursor) ==
    [rel |-> rel, results |-> results, cursor |-> cursor, href |-> <<"issues", cursor>>]
LinkNewest == <<Link("previous", "false", "c0"), Link("next", "true", "c2")>>
LinkLater == <<Link("previous", "true", "c1"), Link("next", "true", "c3")>>
LinkHeaders == {LinkNewest, LinkLater}

\* the header of a direct hit
DirectHit == "X-Sentry-Direct-Hit" :> "1"
\* X-Hits and X-Max-Hits: each value is a string, written as the sequence of
\* its characters
Counts(hits, max) == ("X-Hits" :> hits) @@ ("X-Max-Hits" :> max)

\* The responses of the list endpoint: data and headers (header name -> value,
\* absent headers left out).  The backend sets the direct-hit header only on
\* a response that holds the hit.
Responses ==
    {[data |-> <<Item1, Item2>>, headers |-> Counts(<<"3">>, <<"3">>) @@ ("Link" :> LinkNewest)],
     [data |-> <<Item1>>, headers |-> Counts(<<"a", "b", "c">>, <<>>) @@ ("Link" :> LinkLater)],
     [data |-> <<Item1>>, headers |-> DirectHit @@ Counts(<<"3">>, <<"3">>) @@ ("Link" :> LinkNewest)],
     [data |-> <<Item2>>, headers |-> DirectHit]}

\* the responses of a poll: new items, and the link to poll next
PollResponses ==
    {[data |-> d, headers |-> ("Link" :> LinkNewest)] : d \in {<<>>, <<Item3>>}}

\* error payloads
ErrorResponses == {[detail |-> "Invalid query"]}

----------------------------------------------------------------------------
(* The world an operation runs in *)

\* no navigation was made
NoNavigation == [op |-> "none", pathname |-> <<>>, query |-> <<>>]

\* obs at the start of the task ev: no fetchData() call, no componentDidUpdate
\* call, no resumePolling() call, and the one batch of changes the task's
\* handler submits
\* (picked: the value the user chose in the task, a stats period or a search)
NewObs(ev) ==
    [ev |-> ev, fetchCalls |-> 0, cdus |-> <<>>, rp |-> <<>>, prior |-> <<>>, batches |-> 1,
     resp |-> <<>>, tt |-> <<>>, params |-> <<>>, picked |-> Undefined]

\* The variables as one record, with the updates React has queued (next,
\* nextProps, dirty, and callback, the saved search of a setState callback),
\* whether setState is batched (inside an event handler or
\* a lifecycle method), and whether a bound of the model was exceeded.
World(ev, batching) ==
    [props |-> props, nextProps |-> props, state |-> state, next |-> state,
     dirty |-> FALSE, batching |-> batching, lastRequest |-> lastRequest,
     poller |-> poller, requests |-> requests, store |-> store,
     cookie |-> cookie, browser |-> NoNavigation, mounted |-> mounted,
     loads |-> loads, issued |-> issued, prior |-> prior, overflow |-> FALSE, callback |-> <<>>,
     obs |-> NewObs(ev)]

\* the world becomes the next state
Commit(w) ==
    /\ ~w.overflow
    /\ props' = w.props
    /\ state' = w.state
    /\ lastRequest' = w.lastRequest
    /\ poller' = w.poller
    /\ requests' = w.requests
    /\ store' = w.store
    /\ cookie' = w.cookie
    /\ browser' = w.browser
    /\ mounted' = w.mounted
    /\ loads' = w.loads
    /\ issued' = w.issued
    /\ prior' = w.prior
    /\ obs' = w.obs

----------------------------------------------------------------------------
(* Collaborators *)

\* parseLinkHeader(header): rel -> {results, href, cursor}
parseLinkHeader(header) ==
    LET rels == {header[i].rel : i \in DOMAIN header}
        at(r) == header[CHOOSE i \in DOMAIN header : header[i].rel = r]
    IN  [r \in rels |-> [results |-> (at(r).results = "true"),
                         href |-> at(r).href, cursor |-> at(r).cursor]]

\* jqXHR.getResponseHeader(name): null when the header is absent
getResponseHeader(resp, name) ==
    IF name \in DOMAIN resp.headers THEN resp.headers[name] ELSE Null

\* parseInt(s, 10) over a string given as its characters: leading white space
\* is skipped, a sign is read, then the digits up to the first other character;
\* the result is <<n>>, or <<>> for NaN when no digit is read
Numerals ==
    ("0" :> 0) @@ ("1" :> 1) @@ ("2" :> 2) @@ ("3" :> 3) @@ ("4" :> 4) @@
    ("5" :> 5) @@ ("6" :> 6) @@ ("7" :> 7) @@ ("8" :> 8) @@ ("9" :> 9)
NaN == <<>>
\* the white space parseInt skips (StrWhiteSpaceChar): space, tab, line feed,
\* carriage return, form feed, the vertical tab and the no-break space
\* (written as the characters themselves), and the byte order mark, the line
\* and paragraph separators and the other space separators of Unicode, each
\* written as the one-character string that spells its code point
WhiteSpace ==
    {" ", "\t", "\n", "\r", "\f", "", " ",
     "\\uFEFF", "\\u1680", "\\u2000", "\\u2001", "\\u2002", "\\u2003",
     "\\u2004", "\\u2005", "\\u2006", "\\u2007", "\\u2008", "\\u2009",
     "\\u200A", "\\u2028", "\\u2029", "\\u202F", "\\u205F", "\\u3000"}
RECURSIVE skipBlanks(_)
skipBlanks(s) == IF s # <<>> /\ Head(s) \in WhiteSpace THEN skipBlanks(Tail(s)) ELSE s
RECURSIVE readDigits(_, _, _)
readDigits(s, n, any) ==
    IF s # <<>> /\ Head(s) \in DOMAIN Numerals
    THEN readDigits(Tail(s), n * 10 + Numerals[Head(s)], TRUE)
    ELSE IF any THEN <<n>> ELSE NaN
parseInt(s) ==
    LET t == skipBlanks(s)
        negative == t # <<>> /\ Head(t) = "-"
        signed == t # <<>> /\ Head(t) \in {"-", "+"}
        v == readDigits(IF signed THEN Tail(t) ELSE t, 0, FALSE)
    IN  IF v # NaN /\ negative THEN <<0 - v[1]>> ELSE v

\* parseInt(s, 10) || 0
parseIntOrZero(s) == LET v == parseInt(s) IN IF v = NaN THEN 0 ELSE v[1]

\* typeof v !== 'undefined' && v, for the header name of a response: the
\* header is present and not the empty string
headerTruthy(resp, name) == name \in DOMAIN resp.headers /\ resp.headers[name] # <<>>

\* parseApiError(err): the payload's detail, else a fixed message
parseApiError(err) ==
    IF defined(err.detail) THEN err.detail ELSE "Unknown API Error"

\* extractSelectionParameters(query): the global selection keys of a query
SelectionKeys == {"project", "environment", "start", "end", "utc", "statsPeriod"}
extractSelectionParameters(query) ==
    [k \in DOMAIN query \cap SelectionKeys |-> query[k]]

\* getUtcDateString(date)
getUtcDateString(d) ==
    CASE d = "local:d1" -> "utc:d1"
      [] d = "local:d2" -> "utc:d2"
      [] OTHER -> d

Ids(data) == [i \in DOMAIN data |-> data[i].id]
Without(seq, ids) == SelectSeq(seq, LAMBDA x : \A i \in DOMAIN ids : ids[i] # x)

\* CursorPoller.disable(): inactive, timer cleared, its request cancelled
pollerDisable(w) ==
    [w EXCEPT !.poller.active = FALSE,
              !.poller.req = IF @ = "alive" THEN "dead" ELSE @]

\* CursorPoller.setEndpoint(url); CursorPoller.enable()
pollerEnableAt(w, url) ==
    [w EXCEPT !.poller.endpoint = url, !.poller.active = TRUE]

\* A request is named by its place in requests, which holds "alive" for a
\* request whose callbacks will run and "dead" for a cancelled one; Finished
\* names a request that has ended.
Finished == -1

\* Request.cancel(): the request is no longer alive
requestCancel(w, id) ==
    IF id \in DOMAIN w.requests THEN [w EXCEPT !.requests[id] = "dead"] ELSE w

\* Client.clear(): every request of the client is cancelled, the loads of the
\* tags and of the member list among them
apiClear(w) ==
    [w EXCEPT !.requests = [i \in DOMAIN @ |-> "dead"],
              !.loads = [tags |-> 0, members |-> 0]]

\* Client.request(): a new request, alive
apiRequest(w) ==
    IF Len(w.requests) >= MaxOutstanding
    THEN [w EXCEPT !.overflow = TRUE]
    ELSE LET id == Len(w.requests) + 1
         IN  [w EXCEPT !.requests = Append(@, "alive"), !.lastRequest = id,
                       !.issued = id]

----------------------------------------------------------------------------
(* React: setState and the update it causes *)

RECURSIVE flush(_, _)

\* the update is queued; after unmount setState does nothing
enqueue(w, patch) ==
    IF w.mounted THEN [w EXCEPT !.next = patch @@ @, !.dirty = TRUE] ELSE w

\* this.setState(patch): queued inside a handler or lifecycle method, and
\* applied at once (render, componentDidUpdate) inside a request callback
setState(w, patch) ==
    IF w.batching THEN enqueue(w, patch) ELSE flush(enqueue(w, patch), MaxUpdates)

\* fetchMemberList(): fetchOrgMembers(...).then(members => setState({memberList}))
fetchMemberList(w) ==
    IF w.loads.members >= MaxLoads
    THEN [w EXCEPT !.overflow = TRUE]
    ELSE [w EXCEPT !.loads.members = @ + 1]

\* loadOrganizationTags(...).then(() => setState({tagsLoading: false}))
loadOrganizationTags(w) ==
    IF w.loads.tags >= MaxLoads
    THEN [w EXCEPT !.overflow = TRUE]
    ELSE [w EXCEPT !.loads.tags = @ + 1]

\* fetchTags()
fetchTags(w) == loadOrganizationTags(setState(w, [tagsLoading |-> TRUE]))

----------------------------------------------------------------------------
(* Derived accessors *)

\* getQuery()
getQuery(p) ==
    IF ~p.savedSearch.isNull THEN p.savedSearch.query
    ELSE IF Get(p.location.query, "query") # Undefined THEN p.location.query["query"]
    ELSE DEFAULT_QUERY

\* getSort()
getSort(p) ==
    IF Truthy(Get(p.location.query, "sort")) THEN p.location.query["sort"] ELSE DEFAULT_SORT

\* the stats period were the URL value taken as it is
getGroupStatsPeriod_AnyPeriod(p) ==
    IF typeofString(Get(p.location.query, "groupStatsPeriod"))
    THEN p.location.query["groupStatsPeriod"]
    ELSE DEFAULT_GRAPH_STATS_PERIOD

\* getGroupStatsPeriod()
getGroupStatsPeriod(p) ==
    LET currentPeriod ==
            IF typeofString(Get(p.location.query, "groupStatsPeriod"))
            THEN p.location.query["groupStatsPeriod"]
            ELSE DEFAULT_GRAPH_STATS_PERIOD
    IN  IF currentPeriod \in DYNAMIC_COUNTS_STATS_PERIODS
        THEN currentPeriod
        ELSE DEFAULT_GRAPH_STATS_PERIOD

\* the selection as parameters: {project, environment, query, ...datetime}
selectionParams(p) ==
    Spread([project |-> p.selection.projects,
            environment |-> p.selection.environments,
            query |-> getQuery(p)],
           p.selection.datetime)

\* if (selection.datetime.period) { delete params.period; params.statsPeriod = ... }
relativePeriod(params, period) ==
    IF Truthy(period) THEN ("statsPeriod" :> period) @@ Delete(params, "period") ELSE params

\* if (params[key]) params[key] = getUtcDateString(params[key]), for end and start
utcDate(params, key) ==
    IF Truthy(Get(params, key)) THEN [params EXCEPT ![key] = getUtcDateString(@)] ELSE params

\* if (sort !== DEFAULT_SORT) params.sort = sort
sortParam(params, sort) ==
    IF sort # DEFAULT_SORT THEN ("sort" :> sort) @@ params ELSE params

\* if (groupStatsPeriod !== DEFAULT_GRAPH_STATS_PERIOD) params.groupStatsPeriod = ...
groupStatsPeriodParam(params, groupStatsPeriod) ==
    IF groupStatsPeriod # DEFAULT_GRAPH_STATS_PERIOD
    THEN ("groupStatsPeriod" :> groupStatsPeriod) @@ params
    ELSE params

\* getEndpointParams() were the relative period left under its own key
getEndpointParams_KeepsPeriod(p) ==
    pickDefined(
        groupStatsPeriodParam(
            sortParam(utcDate(utcDate(selectionParams(p), "end"), "start"),
                      getSort(p)),
            getGroupStatsPeriod(p)))

\* getEndpointParams()
getEndpointParams(p) ==
    pickDefined(
        groupStatsPeriodParam(
            sortParam(utcDate(utcDate(relativePeriod(selectionParams(p),
                                                     p.selection.datetime.period),
                                      "end"),
                              "start"),
                      getSort(p)),
            getGroupStatsPeriod(p)))

----------------------------------------------------------------------------
(* The item store and the displayed list *)

\* onGroupChange(): the listener GroupStore calls on a change
onGroupChange(w) ==
    LET groupIds == w.store
    IN  IF groupIds # w.state.groupIds THEN setState(w, [groupIds |-> groupIds]) ELSE w

\* GroupStore notifies its listeners; the controller listens until it unmounts
storeTrigger(w) == IF w.mounted THEN onGroupChange(w) ELSE w

\* GroupStore.loadInitialData([]): the store is emptied
storeLoadInitialEmpty(w) == storeTrigger([w EXCEPT !.store = <<>>])

\* StreamManager.push(items): appended; an item already held moves to the end
streamPush(w, data) ==
    IF data = <<>> THEN w
    ELSE storeTrigger([w EXCEPT !.store = Without(@, Ids(data)) \o Ids(data)])

\* StreamManager.unshift(items): prepended
streamUnshift(w, data) ==
    IF data = <<>> THEN w
    ELSE storeTrigger([w EXCEPT !.store = Ids(data) \o Without(@, Ids(data))])

----------------------------------------------------------------------------
(* Polling *)

\* resumePolling() were it not to look at state.realtimeActive
resumePolling_AnyMode(w) ==
    LET links == parseLinkHeader(w.state.pageLinks)
        w1 == IF w.state.pageLinks = NoLinks
              THEN w
              ELSE IF ~links["previous"].results
                   THEN pollerEnableAt(w, links["previous"].href)
                   ELSE w
    IN  [w1 EXCEPT !.obs.rp = <<[realtimeActive |-> w.state.realtimeActive,
                                 pageLinks |-> w.state.pageLinks,
                                 before |-> w.poller, after |-> w1.poller]>>]

\* resumePolling() were it not to look at the previous link's results
resumePolling_AnyPage(w) ==
    LET links == parseLinkHeader(w.state.pageLinks)
        w1 == IF w.state.pageLinks = NoLinks
              THEN w
              ELSE IF w.state.realtimeActive
                   THEN pollerEnableAt(w, links["previous"].href)
                   ELSE w
    IN  [w1 EXCEPT !.obs.rp = <<[realtimeActive |-> w.state.realtimeActive,
                                 pageLinks |-> w.state.pageLinks,
                                 before |-> w.poller, after |-> w1.poller]>>]

\* resumePolling()
resumePolling(w) ==
    LET links == parseLinkHeader(w.state.pageLinks)
        w1 == IF w.state.pageLinks = NoLinks
              THEN w
              ELSE IF ~links["previous"].results /\ w.state.realtimeActive
                   THEN pollerEnableAt(w, links["previous"].href)
                   ELSE w
    IN  [w1 EXCEPT !.obs.rp = <<[realtimeActive |-> w.state.realtimeActive,
                                 pageLinks |-> w.state.pageLinks,
                                 before |-> w.poller, after |-> w1.poller]>>]

\* onRealtimePoll() were it to push the items as a list response is pushed
onRealtimePoll_Push(w, data) == streamPush(w, data)

\* onRealtimePoll(data, links)
onRealtimePoll(w, data) == streamUnshift(w, data)

----------------------------------------------------------------------------
(* fetchData *)

\* fetchData() were it not to cancel the request before the next
cancelLastRequest_Skip(w) == w

\* if (this._lastRequest) this._lastRequest.cancel()
cancelLastRequest(w) ==
    IF w.lastRequest # 0 THEN requestCancel(w, w.lastRequest) ELSE w

\* fetchData() were it to send the request with the previous one left to run
fetchData_Overlaps(w) ==
    LET w1 == storeLoadInitialEmpty(w)
        w2 == setState(w1, [issuesLoading |-> TRUE, queryCount |-> 0, error |-> Null])
        w3 == pollerDisable(w2)
        w4 == apiRequest(w3)
    IN  [w4 EXCEPT !.obs.fetchCalls = @ + 1, !.prior = w.store,
                   !.obs.params = Append(@, getEndpointParams(w.props))]

\* fetchData(), up to the request it sends; the request's callbacks are
\* successHandler, errorHandler and completeHandler
fetchData(w) ==
    LET w1 == storeLoadInitialEmpty(w)
        w2 == setState(w1, [issuesLoading |-> TRUE, queryCount |-> 0, error |-> Null])
        w3 == cancelLastRequest(w2)
        w4 == pollerDisable(w3)
        w5 == apiRequest(w4)
    IN  [w5 EXCEPT !.obs.fetchCalls = @ + 1, !.prior = w.store,
                   !.obs.params = Append(@, getEndpointParams(w.props))]

\* the redirect of a direct hit
redirectPath(data) ==
    IF Truthy(data[1].matchingEventId)
    THEN <<"organizations", OrgSlug, "issues", data[1].id, "events", data[1].matchingEventId>>
    ELSE <<"organizations", OrgSlug, "issues", data[1].id>>

\* the state update were a count header read as a number only when all of it
\* is one
listState_WholeNumber(resp) ==
    LET count(name) ==
            IF headerTruthy(resp, name)
               /\ \A i \in DOMAIN resp.headers[name] : resp.headers[name][i] \in DOMAIN Numerals
            THEN parseIntOrZero(resp.headers[name]) ELSE 0
    IN  [error |-> Null,
         issuesLoading |-> FALSE,
         queryCount |-> count("X-Hits"),
         queryMaxCount |-> count("X-Max-Hits"),
         pageLinks |-> IF "Link" \in DOMAIN resp.headers THEN resp.headers["Link"] ELSE NoLinks]

\* the state a listed response sets
listState(resp) ==
    LET queryCount == getResponseHeader(resp, "X-Hits")
        queryMaxCount == getResponseHeader(resp, "X-Max-Hits")
    IN  [error |-> Null,
         issuesLoading |-> FALSE,
         queryCount |-> IF headerTruthy(resp, "X-Hits")
                        THEN parseIntOrZero(queryCount) ELSE 0,
         queryMaxCount |-> IF headerTruthy(resp, "X-Max-Hits")
                           THEN parseIntOrZero(queryMaxCount) ELSE 0,
         pageLinks |-> IF "Link" \in DOMAIN resp.headers THEN resp.headers["Link"] ELSE NoLinks]

\* !jqXHR: the success callback was called without the request object, which
\* a response shows by holding no headers
noXHR(resp) == "headers" \notin DOMAIN resp

\* the success handler were it to list a direct hit after the redirect
successHandler_ListsHit(w, resp) ==
    LET w1 == IF getResponseHeader(resp, "X-Sentry-Direct-Hit") = "1"
              THEN [w EXCEPT !.browser = [op |-> "replace", pathname |-> redirectPath(resp.data),
                                          query |-> extractSelectionParameters(w.props.location.query)]]
              ELSE w
    IN  IF noXHR(resp) THEN w ELSE setState(streamPush(w1, resp.data), listState(resp))

\* success: (data, _, jqXHR) => ...
successHandler(w, resp) ==
    IF noXHR(resp) THEN w
    ELSE IF getResponseHeader(resp, "X-Sentry-Direct-Hit") = "1"
    THEN [w EXCEPT !.browser = [op |-> "replace", pathname |-> redirectPath(resp.data),
                                query |-> extractSelectionParameters(w.props.location.query)]]
    ELSE setState(streamPush(w, resp.data), listState(resp))

\* the error handler were it to leave issuesLoading as it is
errorHandler_StillLoading(w, err) ==
    setState(w, [error |-> parseApiError(err)])

\* error: err => ...
errorHandler(w, err) ==
    setState(w, [error |-> parseApiError(err), issuesLoading |-> FALSE])

\* the complete handler were it to leave the marker of the request in place
completeHandler_KeepsMarker(w) == resumePolling(w)

\* the complete handler were it not to look at polling again
completeHandler_NoResume(w) == [w EXCEPT !.lastRequest = 0]

\* complete: () => ...
completeHandler(w) == resumePolling([w EXCEPT !.lastRequest = 0])

----------------------------------------------------------------------------
(* The update rule *)

\* the update rule were it not to watch the sort
trackedChanged_NoSort(prevProps, p) ==
    LET prevQuery == prevProps.location.query
        newQuery == p.location.query
    IN  \/ prevProps.selection # p.selection
        \/ Get(prevQuery, "cursor") # Get(newQuery, "cursor")
        \/ Get(prevQuery, "query") # Get(newQuery, "query")
        \/ Get(prevQuery, "statsPeriod") # Get(newQuery, "statsPeriod")
        \/ Get(prevQuery, "groupStatsPeriod") # Get(newQuery, "groupStatsPeriod")
        \/ prevProps.savedSearch # p.savedSearch

\* the fields the update rule watches
trackedChanged(prevProps, p) ==
    LET prevQuery == prevProps.location.query
        newQuery == p.location.query
    IN  \/ prevProps.selection # p.selection
        \/ Get(prevQuery, "cursor") # Get(newQuery, "cursor")
        \/ Get(prevQuery, "sort") # Get(newQuery, "sort")
        \/ Get(prevQuery, "query") # Get(newQuery, "query")
        \/ Get(prevQuery, "statsPeriod") # Get(newQuery, "statsPeriod")
        \/ Get(prevQuery, "groupStatsPeriod") # Get(newQuery, "groupStatsPeriod")
        \/ prevProps.savedSearch # p.savedSearch

\* the guard were it to look for a request that is outstanding
fetchExpected_Busy(prevState, w) ==
    /\ w.lastRequest # 0
    /\ prevState.issuesLoading = FALSE
    /\ w.state.issuesLoading

\* a fetch was expected and none is outstanding
fetchExpected(prevState, w) ==
    /\ w.lastRequest = 0
    /\ prevState.issuesLoading = FALSE
    /\ w.state.issuesLoading

\* the realtime part were it to leave the poller alone on a toggle off
realtimeUpdate_KeepsPolling(prevState, w) ==
    IF prevState.realtimeActive # w.state.realtimeActive
    THEN IF w.state.realtimeActive THEN resumePolling(w) ELSE w
    ELSE w

\* the realtime part of componentDidUpdate
realtimeUpdate(prevState, w) ==
    IF prevState.realtimeActive # w.state.realtimeActive
    THEN IF w.state.realtimeActive THEN resumePolling(w) ELSE pollerDisable(w)
    ELSE w

\* the fetch part were it not to wait for the saved searches
fetchUpdate_NoWait(prevProps, prevState, w) ==
    IF trackedChanged(prevProps, w.props) THEN fetchData(w)
    ELSE IF fetchExpected(prevState, w) THEN fetchData(w)
    ELSE w

\* the fetch part of componentDidUpdate
fetchUpdate(prevProps, prevState, w) ==
    IF w.props.savedSearchLoading THEN w
    ELSE IF prevProps.savedSearchLoading THEN fetchData(w)
    ELSE IF trackedChanged(prevProps, w.props) THEN fetchData(w)
    ELSE IF fetchExpected(prevState, w) THEN fetchData(w)
    ELSE w

\* history: the values the update rule is specified to watch
TrackedFields(p) ==
    <<p.selection, p.savedSearch,
      [k \in {"cursor", "sort", "query", "statsPeriod", "groupStatsPeriod"} |->
          Get(p.location.query, k)]>>

\* history: the update componentDidUpdate saw in the world w, and the world
\* w2 it left
updateSeen(prevProps, prevState, w, w2) ==
    [w2 EXCEPT !.obs.cdus = Append(@,
        [tracked |-> TrackedFields(prevProps) # TrackedFields(w.props),
         searchesLoading |-> w.props.savedSearchLoading,
         searchesLoaded |-> prevProps.savedSearchLoading /\ ~w.props.savedSearchLoading,
         loadingBegan |-> ~prevState.issuesLoading /\ w.state.issuesLoading,
         idle |-> w.lastRequest = 0,
         fetches |-> w2.obs.fetchCalls - w.obs.fetchCalls])]

\* the member list and the tags are loaded again when the projects of the
\* selection have changed
projectsUpdate(prevProps, w) ==
    IF prevProps.selection.projects # w.props.selection.projects
    THEN fetchTags(fetchMemberList(w))
    ELSE w

\* componentDidUpdate(prevProps, prevState)
componentDidUpdate(prevProps, prevState, w) ==
    updateSeen(prevProps, prevState, w,
               fetchUpdate(prevProps, prevState,
                           projectsUpdate(prevProps, realtimeUpdate(prevState, w))))

\* one update: React applies the queued props and state and calls
\* componentDidUpdate; a setState made during the update is queued
commitUpdate(w) ==
    LET w1 == [w EXCEPT !.props = w.nextProps, !.state = w.next,
                        !.dirty = FALSE, !.batching = TRUE]
    IN  componentDidUpdate(w.props, w.state, w1)

----------------------------------------------------------------------------
(* Navigation *)

\* the saved search the route selects (withSavedSearches)
savedSearchFor(pathname) ==
    LET searches == SavedSearchList \cup {SavedSearchOrg}
    IN  IF \E ss \in searches : pathname = SavedSearchPath(ss.id)
        THEN CHOOSE ss \in searches : pathname = SavedSearchPath(ss.id)
        ELSE NoSavedSearch

\* browserHistory.push({pathname, query}): the router hands the new location
\* (and the saved search of its route) to the controller with the next render
historyPush(w, path, query) ==
    [w EXCEPT !.nextProps.location = [pathname |-> path, query |-> query],
              !.nextProps.savedSearch = savedSearchFor(path),
              !.browser = [op |-> "push", pathname |-> path, query |-> query]]

\* [savedSearch.projectId]
ProjectList(projectId) == IF projectId = "2" THEN "[2]" ELSE "[1]"

\* if (!query.cursor && savedSearch.projectId) query.project = [savedSearch.projectId]
savedSearchProject(query, savedSearch) ==
    IF ~Truthy(Get(query, "cursor")) /\ Truthy(savedSearch.projectId)
    THEN ("project" :> ProjectList(savedSearch.projectId)) @@ query
    ELSE query

\* the path and query transitionTo builds from the merged parameters
targetOf(query, savedSearch) ==
    IF ~savedSearch.isNull /\ Truthy(savedSearch.id)
    THEN [path |-> SavedSearchPath(savedSearch.id),
          query |-> savedSearchProject(Delete(query, "query"), savedSearch)]
    ELSE [path |-> IssuesPath, query |-> query]

\* the target were the query string of the location kept for a saved search
transitionTarget_KeepsQuery(p, newParams, savedSearch) ==
    IF ~savedSearch.isNull /\ Truthy(savedSearch.id)
    THEN [path |-> SavedSearchPath(savedSearch.id),
          query |-> savedSearchProject(Spread(getEndpointParams(p), newParams), savedSearch)]
    ELSE [path |-> IssuesPath, query |-> Spread(getEndpointParams(p), newParams)]

\* the target of transitionTo: path and query
transitionTarget(p, newParams, savedSearch) ==
    targetOf(Spread(getEndpointParams(p), newParams), savedSearch)

\* history: a transitionTo() call, from the world w it was made in to the
\* world w2 it left
transitionCall(w, newParams, savedSearch, w2) ==
    [w2 EXCEPT !.obs.tt = Append(@, [newParams |-> newParams,
                                     savedSearch |-> savedSearch,
                                     pushed |-> w2.browser # w.browser,
                                     loading |-> w2.next.issuesLoading,
                                     kept |-> /\ w2.state = w.state
                                              /\ w2.next = w.next
                                              /\ w2.nextProps = w.nextProps])]

\* browserHistory.push({pathname: path, query}) and setState({issuesLoading: true})
pushTarget(w, t) ==
    setState(historyPush(w, t.path, t.query), [issuesLoading |-> TRUE])

\* if (path !== this.props.location.pathname || !isEqual(query, this.props.location.query))
targetDiffers(w, t) ==
    t.path # w.props.location.pathname \/ t.query # w.props.location.query

\* transitionTo() were it to navigate whether or not the target differs
transitionTo_Always(w, newParams, savedSearch) ==
    transitionCall(w, newParams, savedSearch,
                   pushTarget(w, transitionTarget(w.props, newParams, savedSearch)))

\* the navigation of transitionTo to the target t
navigate(w, t) == IF targetDiffers(w, t) THEN pushTarget(w, t) ELSE w

\* transitionTo(newParams, savedSearch)
transitionTo(w, newParams, savedSearch) ==
    transitionCall(w, newParams, savedSearch,
                   navigate(w, transitionTarget(w.props, newParams, savedSearch)))

\* the page number n as the query holds it
PageString(n) == CHOOSE c \in DOMAIN Numerals : Numerals[c] = n

\* the page onCursorChange goes to; the pages of the model have one digit
nextPage(query, pageDiff) ==
    LET queryPageInt == IF defined(Get(query, "page")) THEN parseInt(<<query["page"]>>) ELSE NaN
    IN  IF queryPageInt = NaN THEN pageDiff ELSE queryPageInt[1] + pageDiff

\* onCursorChange(cursor, _path, query, pageDiff)
onCursorChange(w, cursor, query, pageDiff) ==
    transitionTo(w,
                 IF nextPage(query, pageDiff) <= 0
                 THEN [cursor |-> Undefined, page |-> Undefined]
                 ELSE [cursor |-> cursor, page |-> PageString(nextPage(query, pageDiff))],
                 w.props.savedSearch)

\* onSelectStatsPeriod(period)
onSelectStatsPeriod(w, period) ==
    LET w1 == [w EXCEPT !.obs.picked = period]
    IN  IF period # getGroupStatsPeriod(w.props)
        THEN transitionTo(w1, [groupStatsPeriod |-> period], w.props.savedSearch)
        ELSE w1

\* onSearch(query)
onSearch(w, query) ==
    IF query = w.state.query
    THEN fetchData([w EXCEPT !.obs.picked = query])
    ELSE transitionTo([w EXCEPT !.obs.picked = query], [query |-> query], NoSavedSearch)

\* onSavedSearchSelect(savedSearch): setState({issuesLoading: true}, callback);
\* React calls the callback, transitionTo(undefined, savedSearch), at the end
\* of the update the setState causes, after componentDidUpdate
onSavedSearchSelect(w, savedSearch) ==
    [enqueue(w, [issuesLoading |-> TRUE]) EXCEPT !.callback = <<savedSearch>>]

\* onSavedSearchDelete(search), from the point the deletion has been made:
\* deleteSavedSearch(...).then(() => setState({issuesLoading: true},
\* () => this.transitionTo({}, null))); the setState is made in a promise
\* callback, so the update it causes is made at once
onSavedSearchDelete(w) ==
    [enqueue(w, [issuesLoading |-> TRUE]) EXCEPT !.callback = <<NoSavedSearch>>]

\* the callback of the setState of onSavedSearchSelect or onSavedSearchDelete,
\* if the update just made was that setState's
runCallback(w) ==
    IF w.callback = <<>> THEN w
    ELSE transitionTo([w EXCEPT !.callback = <<>>, !.obs.batches = @ + 1],
                      EmptyObject, w.callback[1])

\* React updates while an update is queued
flush(w, fuel) ==
    IF ~w.mounted \/ (~w.dirty /\ w.nextProps = w.props)
    THEN [w EXCEPT !.batching = FALSE]
    ELSE IF fuel = 0 THEN [w EXCEPT !.overflow = TRUE]
    ELSE flush(runCallback(commitUpdate(w)), fuel - 1)

----------------------------------------------------------------------------
(* The initial state: constructed and mounted, saved searches loading *)

CookieValues == {Undefined, "true", "false"}

\* this.state as the constructor sets it, c being the realtimeActive cookie
ConstructedState(c) ==
    [groupIds |-> <<>>,
     realtimeActive |-> IF c = Undefined THEN FALSE ELSE c = "true",
     pageLinks |-> NoLinks,
     queryCount |-> 0,
     queryMaxCount |-> 0,
     error |-> Null,
     issuesLoading |-> TRUE,
     tagsLoading |-> TRUE,
     memberList |-> EmptyObject,
     query |-> Undefined]
Sorts == {"freq"}
Searches == {"foo"}

\* the constructor: the controller at the location loc under the global
\* selection sel, the browser holding c as the realtimeActive cookie; the
\* saved searches are loading
Constructed(loc, sel, c) ==
    [props |-> [location |-> loc, selection |-> sel, savedSearch |-> NoSavedSearch,
                savedSearchLoading |-> TRUE],
     nextProps |-> [location |-> loc, selection |-> sel, savedSearch |-> NoSavedSearch,
                    savedSearchLoading |-> TRUE],
     state |-> ConstructedState(c), next |-> ConstructedState(c),
     dirty |-> FALSE, batching |-> TRUE, lastRequest |-> 0,
     poller |-> [active |-> FALSE, endpoint |-> <<>>, req |-> "none"],
     requests |-> <<>>, store |-> <<>>, cookie |-> c, browser |-> NoNavigation,
     mounted |-> TRUE, loads |-> [tags |-> 0, members |-> 0], issued |-> 0,
     prior |-> <<>>, overflow |-> FALSE, callback |-> <<>>, obs |-> NewObs("init")]

\* componentDidMount(): the poller is made, disabled; fetchSavedSearches() is
\* the business of the saved search store; the tags and the member list are
\* loaded
componentDidMount(w) == fetchMemberList(fetchTags(w))

\* the world is the initial state
Started(w) ==
    /\ props = w.props
    /\ state = w.state
    /\ lastRequest = w.lastRequest
    /\ poller = w.poller
    /\ requests = w.requests
    /\ store = w.store
    /\ cookie = w.cookie
    /\ browser = w.browser
    /\ mounted = w.mounted
    /\ loads = w.loads
    /\ issued = w.issued
    /\ prior = w.prior
    /\ obs = w.obs

\* constructed and mounted at the location loc under the global selection
\* sel, the browser holding one of cookies as the realtimeActive cookie
InitWith(loc, sel, cookies) ==
    \E c \in cookies :
        Started(flush(componentDidMount(Constructed(loc, sel, c)), MaxUpdates))

Init == InitWith([pathname |-> IssuesPath, query |-> EmptyObject], SelRelative, CookieValues)

----------------------------------------------------------------------------
(* The tasks *)

\* the saved searches finish loading (withSavedSearches): a props update
SavedSearchesLoaded ==
    /\ mounted /\ props.savedSearchLoading
    /\ \E ss \in {NoSavedSearch} \cup SavedSearchList :
        LET w == World("savedSearchesLoaded", TRUE)
        IN  Commit(flush([w EXCEPT !.nextProps.savedSearchLoading = FALSE,
                                   !.nextProps.savedSearch = ss], MaxUpdates))

\* the global selection changes (withGlobalSelection): a props update
\* the member lists the server may answer with, indexed by project
MemberLists == {EmptyObject, [p1 |-> <<"member">>]}

\* the promise of loadOrganizationTags resolves: setState({tagsLoading: false})
TagsLoaded ==
    /\ mounted
    /\ loads.tags > 0
    /\ LET w == World("tagsLoaded", FALSE)
       IN  Commit(flush(setState([w EXCEPT !.loads.tags = @ - 1],
                                 [tagsLoading |-> FALSE]), MaxUpdates))

\* the promise of fetchOrgMembers resolves: setState({memberList: ...})
MembersLoaded ==
    /\ mounted
    /\ loads.members > 0
    /\ \E members \in MemberLists :
        LET w == World("membersLoaded", FALSE)
        IN  Commit(flush(setState([w EXCEPT !.loads.members = @ - 1],
                                  [memberList |-> members]), MaxUpdates))

\* the user picks other projects in the global selection header
ProjectsChanged ==
    /\ mounted
    /\ \E projects \in ProjectChoices \ {props.selection.projects} :
        LET w == World("selectionChanged", TRUE)
        IN  Commit(flush([w EXCEPT !.nextProps.selection.projects = projects],
                         MaxUpdates))

SelectionChanged ==
    /\ mounted
    /\ \E sel \in Selections \ {props.selection} :
        LET w == World("selectionChanged", TRUE)
        IN  Commit(flush([w EXCEPT !.nextProps.selection = sel], MaxUpdates))

\* the toggle were it to leave the cookie as it is
RealtimeChange_NoCookie ==
    /\ mounted /\ ~props.savedSearchLoading
    /\ LET realtime == ~state.realtimeActive
           w == World(IF realtime THEN "realtimeOn" ELSE "realtimeOff", TRUE)
       IN  Commit(flush(setState(w, [realtimeActive |-> realtime]), MaxUpdates))

\* onRealtimeChange(realtime): the user toggles the realtime button
RealtimeChange ==
    /\ mounted /\ ~props.savedSearchLoading
    /\ LET realtime == ~state.realtimeActive
           w == World(IF realtime THEN "realtimeOn" ELSE "realtimeOff", TRUE)
           w1 == [w EXCEPT !.cookie = IF realtime THEN "true" ELSE "false"]
       IN  Commit(flush(setState(w1, [realtimeActive |-> realtime]), MaxUpdates))

\* onSortChange(sort)
SortChange ==
    /\ mounted /\ ~props.savedSearchLoading
    /\ \E sort \in Sorts :
        LET w == World("sortChange", TRUE)
        IN  Commit(flush(transitionTo(w, [sort |-> sort], w.props.savedSearch), MaxUpdates))

\* onSearch(query): the user submits the search bar
Search ==
    /\ mounted /\ ~props.savedSearchLoading
    /\ \E q \in Searches :
        Commit(flush(onSearch(World("search", TRUE), q), MaxUpdates))

\* onSavedSearchSelect(savedSearch): the user picks a saved search
SavedSearchSelect ==
    /\ mounted /\ ~props.savedSearchLoading
    /\ \E ss \in SavedSearchList :
        Commit(flush(onSavedSearchSelect(World("savedSearchSelect", TRUE), ss), MaxUpdates))

\* onSavedSearchDelete(search): the deletion of a saved search the user asked
\* for has been made
SavedSearchDelete ==
    /\ mounted /\ ~props.savedSearchLoading
    /\ Commit(flush(onSavedSearchDelete(World("savedSearchDelete", FALSE)), MaxUpdates))

\* the retry button of the error message, onRetry={this.fetchData}, which
\* renderStreamBody() shows when the list is not loading and state.error is
\* truthy
Retry ==
    /\ mounted /\ ~props.savedSearchLoading
    /\ ~state.issuesLoading /\ Truthy(state.error)
    /\ Commit(flush(fetchData(World("retry", TRUE)), MaxUpdates))

\* history: the task of a response to request id; "late" when a newer
\* fetchData() has superseded the request
Response(kind, id) == IF id # issued THEN "late" ELSE kind

\* what named request r names once request id has ended
Renamed(r, id) == IF r = id THEN Finished ELSE IF r > id THEN r - 1 ELSE r

\* the request has ended: the client forgets it
requestDone(w, id) ==
    LET w1 == [w EXCEPT !.requests = SubSeq(@, 1, id - 1) \o SubSeq(@, id + 1, Len(@)),
                        !.lastRequest = Renamed(@, id)]
    IN  IF id = w.issued
        THEN [w1 EXCEPT !.issued = 0, !.prior = <<>>, !.obs.prior = w.prior]
        ELSE [w1 EXCEPT !.issued = Renamed(@, id)]

\* Client.wrapCallback(id, func): func runs only for a request still alive
wrapCallback(w, id, after) ==
    IF id \in DOMAIN w.requests /\ w.requests[id] = "alive" THEN after ELSE w

\* the response that stands for all responses to a cancelled request
CancelledResponse == CHOOSE r \in Responses : TRUE

\* a list request returns 2xx: success, then complete; what a cancelled
\* request returns is not looked at, and one response stands for all
RequestSucceeds(id, resp) ==
    /\ id \in DOMAIN requests
    /\ requests[id] = "dead" => resp = CancelledResponse
    /\ LET w0 == World(Response("success", id), FALSE)
           w == wrapCallback(w0, id, [w0 EXCEPT !.obs.resp = resp])
           w1 == wrapCallback(w, id, successHandler(w, resp))
           w2 == wrapCallback(w1, id, completeHandler(w1))
       IN  Commit(requestDone(w2, id))

\* a list request fails: error, then complete
RequestFails(id, err) ==
    /\ id \in DOMAIN requests
    /\ requests[id] = "dead" => err = CHOOSE e \in ErrorResponses : TRUE
    /\ LET w == World(Response("error", id), FALSE)
           w1 == wrapCallback(w, id, errorHandler(w, err))
           w2 == wrapCallback(w1, id, completeHandler(w1))
       IN  Commit(requestDone(w2, id))

\* the poller's timer fires: it requests its endpoint
PollFires ==
    /\ poller.active /\ poller.req # "alive"
    /\ Commit([World("pollFires", FALSE) EXCEPT !.poller.req = "alive"])

\* the poller's success callback: nothing when disabled or without data
pollSuccess(w, data, link) ==
    IF ~w.poller.active \/ data = <<>> THEN w
    ELSE onRealtimePoll([w EXCEPT !.poller.endpoint = parseLinkHeader(link)["previous"].href],
                        data)

\* a poll request returns 2xx
PollSucceeds(resp) ==
    /\ poller.req # "none"
    /\ LET w == World("pollSuccess", FALSE)
           w1 == IF poller.req = "alive"
                 THEN pollSuccess(w, resp.data, resp.headers["Link"])
                 ELSE w
       IN  Commit([w1 EXCEPT !.poller.req = "none"])

\* a poll request fails: the poller has no error callback
PollFails ==
    /\ poller.req # "none"
    /\ Commit([World("pollError", FALSE) EXCEPT !.poller.req = "none"])

\* componentWillUnmount() were it to leave the client's requests to run
componentWillUnmount_KeepsRequests(w) ==
    LET w1 == pollerDisable(w)
        w2 == [w1 EXCEPT !.store = <<>>]
    IN  [w2 EXCEPT !.mounted = FALSE, !.prior = <<>>]

\* componentWillUnmount()
componentWillUnmount(w) ==
    LET w1 == pollerDisable(w)
        w2 == [w1 EXCEPT !.store = <<>>]
        w3 == apiClear(w2)
    IN  [w3 EXCEPT !.mounted = FALSE, !.prior = <<>>]

Unmount ==
    /\ mounted
    /\ Commit(componentWillUnmount(World("unmount", TRUE)))

\* Under Next the selection changes its date range only and the loads of the
\* tags and of the member list begun at mount stay under way; LoadsNext has
\* the projects change and the loads arrive.
Next ==
    \/ SavedSearchesLoaded
    \/ SelectionChanged
    \/ RealtimeChange
    \/ SortChange
    \/ Search
    \/ SavedSearchSelect
    \/ SavedSearchDelete
    \/ Retry
    \/ \E id \in 1..MaxOutstanding : \E resp \in Responses : RequestSucceeds(id, resp)
    \/ \E id \in 1..MaxOutstanding : \E err \in ErrorResponses : RequestFails(id, err)
    \/ PollFires
    \/ \E resp \in PollResponses : PollSucceeds(resp)
    \/ PollFails
    \/ Unmount

Spec == Init /\ [][Next]_vars

\* The header specification: the controller receives list responses whose
\* X-Hits header is drawn from every string of up to MaxHeaderLen characters
\* and two that start with white space, or is absent, with and without a Link
\* header.
HeaderChars == {"3", "a", "-"}
HeaderValues ==
    UNION {[1..n -> HeaderChars] : n \in 0..MaxHeaderLen} \cup {<<" ", "3">>, <<"\t", "3">>}
HeaderSets ==
    {EmptyObject, Counts(<<"3">>, <<"3", "a">>)}
        \cup {("X-Hits" :> v) : v \in HeaderValues}
HeaderResponses ==
    {[data |-> <<Item1, Item2>>, headers |-> h] : h \in HeaderSets}
        \cup {[data |-> <<Item1, Item2>>, headers |-> h @@ ("Link" :> LinkNewest)] :
                    h \in HeaderSets}

\* the tags and the member list arrive while the projects of the selection,
\* the sort and the list change
LoadsNext ==
    \/ SavedSearchesLoaded
    \/ TagsLoaded
    \/ MembersLoaded
    \/ ProjectsChanged
    \/ SortChange
    \/ \E id \in 1..MaxOutstanding : \E resp \in Responses : RequestSucceeds(id, resp)
    \/ Unmount

SpecLoads == Init /\ [][LoadsNext]_vars

ResponseNext ==
    \/ SavedSearchesLoaded
    \/ SelectionChanged
    \/ RealtimeChange
    \/ \E id \in 1..MaxOutstanding :
            \E resp \in HeaderResponses \cup {CancelledResponse} : RequestSucceeds(id, resp)
    \/ PollFires
    \/ \E resp \in PollResponses : PollSucceeds(resp)

SpecResponse == Init /\ [][ResponseNext]_vars

\* The realtime specification: the browser may also hold a realtimeActive
\* cookie that is neither 'true' nor 'false'.
InitRealtime ==
    InitWith([pathname |-> IssuesPath, query |-> EmptyObject], SelRelative,
             CookieValues \cup {"1"})

RealtimeNext ==
    \/ SavedSearchesLoaded
    \/ SelectionChanged
    \/ RealtimeChange
    \/ \E id \in 1..MaxOutstanding : \E resp \in Responses : RequestSucceeds(id, resp)
    \/ PollFires
    \/ \E resp \in PollResponses : PollSucceeds(resp)
    \/ Unmount

SpecRealtime == InitRealtime /\ [][RealtimeNext]_vars

\* The navigation specification: the controller is opened at URLs with every
\* kind of groupStatsPeriod value and under relative and absolute selections,
\* and the user pages, sorts, picks stats periods and saved searches.
UrlStatsPeriods == {"14d", "24h", "auto", "7d", "[14d,24h]"}
UrlQueries == {EmptyObject} \cup {("groupStatsPeriod" :> v) : v \in UrlStatsPeriods}
SelRecent ==
    [projects |-> "[1]", environments |-> "[]",
     datetime |-> [period |-> "1h", start |-> Null, end |-> Null, utc |-> "true"]]
Cursors == {"c1"}
StatsPeriods == {"24h", "14d"}

InitNavigation ==
    \E q \in UrlQueries : \E sel \in Selections \cup {SelRecent} :
        InitWith([pathname |-> IssuesPath, query |-> q], sel, CookieValues)

\* the user follows a pagination link
CursorChange ==
    /\ mounted /\ ~props.savedSearchLoading
    /\ \E cursor \in Cursors : \E pageDiff \in {-1, 1} :
        /\ nextPage(props.location.query, pageDiff) <= MaxPage
        /\ Commit(flush(onCursorChange(World("cursorChange", TRUE), cursor,
                                       props.location.query, pageDiff), MaxUpdates))

\* the user picks the period of the graphs
SelectStatsPeriod ==
    /\ mounted /\ ~props.savedSearchLoading
    /\ \E period \in StatsPeriods :
        Commit(flush(onSelectStatsPeriod(World("selectStatsPeriod", TRUE), period), MaxUpdates))

\* the user picks the saved search of the organization
OrgSavedSearchSelect ==
    /\ mounted /\ ~props.savedSearchLoading
    /\ Commit(flush(onSavedSearchSelect(World("savedSearchSelect", TRUE), SavedSearchOrg),
                    MaxUpdates))

NavigationNext ==
    \/ SavedSearchesLoaded
    \/ SortChange
    \/ CursorChange
    \/ SelectStatsPeriod
    \/ SavedSearchSelect
    \/ OrgSavedSearchSelect
    \/ SavedSearchDelete
    \/ \E id \in 1..MaxOutstanding : RequestSucceeds(id, CancelledResponse)

SpecNavigation == InitNavigation /\ [][NavigationNext]_vars

----------------------------------------------------------------------------
(* Properties *)

\* the list requests whose callbacks will still run
Alive == {i \in DOMAIN requests : requests[i] = "alive"}

\* the previous-page link of a Link header reports further results
PreviousHasResults(header) ==
    \E i \in DOMAIN header : header[i].rel = "previous" /\ header[i].results = "true"

\* the target of the previous-page link of a Link header
PreviousHref(header) ==
    header[CHOOSE i \in DOMAIN header : header[i].rel = "previous"].href

\* the task just done ran the callbacks of the request the newest fetchData() sent
Answered(kind) == obs'.ev = kind /\ issued # 0 /\ requests[issued] = "alive"

\* C1: at most one list request is outstanding (sent and not cancelled), and
\* it is the one _lastRequest holds: fetchData() cancels the request before
\* it sends the next.
C1_AtMostOneOutstanding ==
    /\ Cardinality(Alive) <= 1
    /\ Alive \subseteq {lastRequest}

\* a fetchData() call was made while a request was outstanding
C1_Witness ==
    /\ obs.fetchCalls > 0
    /\ Alive # {}
    /\ \E i \in DOMAIN requests : requests[i] = "dead"

\* C2: the response to a request that a newer fetchData() call superseded
\* runs no handler: the state, the item store, the in-flight marker and the
\* poller stay as they were, and nothing is navigated or fetched.
C2_SupersededIsSilent ==
    [][obs'.ev = "late" =>
        /\ state' = state
        /\ store' = store
        /\ (lastRequest' = 0) = (lastRequest = 0)
        /\ lastRequest = issued => lastRequest' = issued'
        /\ poller' = poller
        /\ browser' = NoNavigation
        /\ obs'.fetchCalls = 0 /\ obs'.cdus = <<>> /\ obs'.rp = <<>>]_vars

\* a superseded request was answered while the newer request was outstanding
C2_Witness ==
    /\ obs.ev = "late"
    /\ mounted
    /\ lastRequest # 0
    /\ lastRequest \in Alive

\* the condition under which resumePolling() is to enable the poller
ShouldPoll(realtimeActive, pageLinks) ==
    /\ realtimeActive
    /\ pageLinks # NoLinks
    /\ ~PreviousHasResults(pageLinks)

\* C3: a resumePolling() call enables the poller, aimed at the previous-page
\* link, if realtime is active, the page links are not empty and the
\* previous-page link reports no further results; else it leaves the poller
\* as it was.
C3_ResumePolling ==
    \A i \in DOMAIN obs.rp :
        LET r == obs.rp[i]
        IN  IF ShouldPoll(r.realtimeActive, r.pageLinks)
            THEN r.after = [r.before EXCEPT !.active = TRUE,
                                            !.endpoint = PreviousHref(r.pageLinks)]
            ELSE r.after = r.before

\* resumePolling() enabled a disabled poller
C3_Witness ==
    \E i \in DOMAIN obs.rp :
        /\ ShouldPoll(obs.rp[i].realtimeActive, obs.rp[i].pageLinks)
        /\ ~obs.rp[i].before.active
        /\ obs.rp[i].after.active

\* C4: the poller is never enabled while a list request is outstanding.
C4_NoPollingWhileFetching == Alive # {} => ~poller.active

\* C5: toggling realtime on while the previous-page link reports further
\* results does not enable the poller.
C5_ToggleOnOlderPage ==
    (obs.ev = "realtimeOn" /\ PreviousHasResults(state.pageLinks)) => ~poller.active

\* realtime was toggled on while on an older page
C5_Witness ==
    /\ obs.ev = "realtimeOn"
    /\ state.realtimeActive
    /\ PreviousHasResults(state.pageLinks)
    /\ obs.rp # <<>>

\* C6: after the user toggles realtime off, after the controller unmounts
\* and after every task that called fetchData(), the poller is disabled.
C6_PollerDisabledAfter ==
    (obs.ev \in {"realtimeOff", "unmount"} \/ obs.fetchCalls > 0) => ~poller.active

\* realtime was toggled off while the poller was enabled and polling
C6_Witness ==
    /\ obs.ev = "realtimeOff"
    /\ poller.req = "dead"

\* C7 as stated: after a failed fetch an error is recorded, issuesLoading is
\* false and the item store and the group id list are those from before the
\* fetchData() call.
C7_PriorResultsRetained ==
    (obs.ev = "error" /\ state.error # Null) =>
        /\ ~state.issuesLoading
        /\ store = obs.prior
        /\ state.groupIds = obs.prior

\* C7, amended: fetchData() empties the item store when it is called; the
\* failure of its request records an error message, sets issuesLoading to
\* false and leaves the item store and the group id list as they were when
\* the response arrived.
C7_ErrorKeepsStore ==
    [][/\ obs'.fetchCalls > 0 => store' = <<>>
       /\ Answered("error") =>
            /\ state'.error # Null
            /\ ~state'.issuesLoading
            /\ store' = store
            /\ state'.groupIds = state.groupIds]_vars

\* a fetch failed that was started over a non-empty list
C7_Witness ==
    /\ obs.ev = "error"
    /\ state.error # Null
    /\ obs.prior # <<>>
    /\ store = <<>>

\* the response carries the direct-hit header
IsDirectHit(resp) ==
    "X-Sentry-Direct-Hit" \in DOMAIN resp.headers /\ resp.headers["X-Sentry-Direct-Hit"] = "1"

Elements(seq) == {seq[i] : i \in DOMAIN seq}

\* C8: a direct-hit response replaces the location by a path that holds the
\* first item's identifier, and its matching event identifier when it has
\* one, and changes neither the item store nor the state.
C8_DirectHitRedirects ==
    [][\A resp \in Responses :
        (IsDirectHit(resp) /\ Answered("success") /\ RequestSucceeds(issued, resp)) =>
            /\ browser'.op = "replace"
            /\ resp.data[1].id \in Elements(browser'.pathname)
            /\ defined(resp.data[1].matchingEventId) =>
                    resp.data[1].matchingEventId \in Elements(browser'.pathname)
            /\ store' = store
            /\ state' = state]_vars

\* a direct hit with a matching event was redirected
C8_Witness ==
    /\ obs.ev = "success"
    /\ browser.op = "replace"
    /\ "events" \in Elements(browser.pathname)
    /\ state.issuesLoading

\* C9: a poll result is prepended to the item store and changes nothing of
\* the state but the group id list; no poll outcome sets the error.
C9_PollOnlyPrepends ==
    [][/\ \A resp \in PollResponses :
            (poller.req = "alive" /\ PollSucceeds(resp)) =>
                /\ store' = Ids(resp.data) \o Without(store, Ids(resp.data))
                /\ state' = [state EXCEPT !.groupIds = store']
       /\ obs'.ev \in {"pollSuccess", "pollError"} =>
            /\ state'.error = state.error
            /\ obs'.fetchCalls = 0]_vars

\* a polled item was put before the listed ones
C9_Witness ==
    /\ obs.ev = "pollSuccess"
    /\ store = <<"g3", "g1", "g2">>
    /\ state.groupIds = store
    /\ state.pageLinks # NoLinks

\* C10: with the saved searches loaded, an update in which a tracked field
\* changed calls fetchData() once, no update calls it twice, and no task
\* calls it more often than its handler submitted batches of changes (one;
\* two for the selection of a saved search, whose setState and whose
\* transitionTo are two batches).
C10_OneFetchPerBatch ==
    /\ obs.fetchCalls <= obs.batches
    /\ \A i \in DOMAIN obs.cdus :
        /\ obs.cdus[i].fetches <= 1
        /\ (obs.cdus[i].tracked /\ ~obs.cdus[i].searchesLoading) => obs.cdus[i].fetches = 1

\* transitionTo() navigated while a request was outstanding, and one fetch followed
C10_Witness ==
    /\ browser.op = "push"
    /\ obs.fetchCalls = 1
    /\ Len(obs.cdus) = 2
    /\ obs.cdus[1].tracked /\ obs.cdus[1].fetches = 1
    /\ \E i \in DOMAIN requests : requests[i] = "dead"

\* C11: an update with the saved searches still loading does not call
\* fetchData(), and the update in which they finish loading calls it once,
\* whether or not a tracked field changed in that update; the task calls it
\* no second time.
C11_SavedSearchGate ==
    \A i \in DOMAIN obs.cdus :
        /\ obs.cdus[i].searchesLoading => obs.cdus[i].fetches = 0
        /\ obs.cdus[i].searchesLoaded =>
                obs.cdus[i].fetches = 1 /\ obs.fetchCalls = 1

\* the saved searches finished loading with a pinned search: the saved
\* search changed in the same update, and one fetch was made
C11_Witness ==
    /\ obs.ev = "savedSearchesLoaded"
    /\ obs.cdus[1].searchesLoaded /\ obs.cdus[1].tracked
    /\ obs.cdus[1].fetches = 1
    /\ Cardinality(Alive) = 1

\* the selection changed while the saved searches were loading: no fetch
C11_WitnessLoading ==
    /\ obs.ev = "selectionChanged"
    /\ obs.cdus[1].searchesLoading /\ obs.cdus[1].tracked
    /\ obs.fetchCalls = 0

\* the mounted controller shows the list as loading, the saved searches are
\* loaded, and no list request is outstanding
Stuck ==
    /\ mounted
    /\ ~props.savedSearchLoading
    /\ state.issuesLoading
    /\ Alive = {}

\* C12 as stated: the controller is never in a state with issuesLoading true
\* and no outstanding list request once the saved searches are loaded.
C12_NeverStuck == ~Stuck

\* C12, amended: an update with the saved searches loaded in which
\* issuesLoading went from false to true while _lastRequest was null calls
\* fetchData(); and the controller comes to show loading with no outstanding
\* request only by a direct-hit redirect, which leaves issuesLoading set.
C12_SelfHeal ==
    [][/\ \A i \in DOMAIN obs'.cdus :
            LET u == obs'.cdus[i]
            IN  (~u.searchesLoading /\ u.loadingBegan /\ u.idle) => u.fetches = 1
       /\ (~Stuck /\ Stuck') =>
            \E resp \in Responses :
                IsDirectHit(resp) /\ Answered("success") /\ RequestSucceeds(issued, resp)]_vars

\* a saved search was selected while the list was shown and no request was
\* outstanding: the update of its setState, in which no tracked field
\* changed, called fetchData()
C12_Witness ==
    /\ obs.ev = "savedSearchSelect"
    /\ obs.cdus[1].loadingBegan /\ obs.cdus[1].idle
    /\ ~obs.cdus[1].tracked
    /\ obs.cdus[1].fetches = 1

\* the string read backwards
Reverse(s) == [i \in DOMAIN s |-> s[Len(s) + 1 - i]]

\* the string is a decimal integer: white space around it aside, a sign or none and
\* then digits only
IsNumber(s) ==
    LET t == Reverse(skipBlanks(Reverse(skipBlanks(s))))
        d == IF t # <<>> /\ Head(t) \in {"-", "+"} THEN Tail(t) ELSE t
    IN  d # <<>> /\ \A i \in DOMAIN d : d[i] \in DOMAIN Numerals

\* the number a count header stands for when all of it is a number, else 0
NumericValue(s) == IF IsNumber(s) THEN parseInt(s)[1] ELSE 0

\* the integer a count header begins with, 0 when it begins with none
LeadingValue(s) == IF parseInt(s) = NaN THEN 0 ELSE parseInt(s)[1]

\* the value of a header, the empty string when the header is absent
HeaderOrEmpty(resp, name) ==
    IF name \in DOMAIN resp.headers THEN resp.headers[name] ELSE <<>>

\* the task just done listed the response resp, reading counts by Value
Listed(resp, Value(_)) ==
    /\ store' = Without(store, Ids(resp.data)) \o Ids(resp.data)
    /\ state'.error = Null
    /\ state'.issuesLoading = FALSE
    /\ state'.queryCount = Value(HeaderOrEmpty(resp, "X-Hits"))
    /\ state'.queryMaxCount = Value(HeaderOrEmpty(resp, "X-Max-Hits"))
    /\ state'.pageLinks =
            IF "Link" \in DOMAIN resp.headers THEN resp.headers["Link"] ELSE NoLinks

\* the success handler of the task just done ran on a response that is no
\* direct hit
ListedResponse == obs'.ev = "success" /\ obs'.resp # <<>> /\ ~IsDirectHit(obs'.resp)

\* C13 as stated: a successful response that is no direct hit appends its
\* items to the item store, sets error to null and issuesLoading to false,
\* sets each count to the number its header is, or to 0 when the header is
\* absent, empty or not a number, and sets pageLinks to the Link header, or
\* to the empty string when it is absent.
C13_ListsNumericCounts ==
    [][ListedResponse => Listed(obs'.resp, NumericValue)]_vars

\* C13 amended: as above, but each count is the integer its header begins
\* with (white space, a sign, then digits up to the first other character), or 0
\* when the header is absent, empty or begins with no integer.
C13_ListsLeadingCounts ==
    [][ListedResponse => Listed(obs'.resp, LeadingValue)]_vars

\* a response without Link header whose count header starts with a number and
\* goes on with a letter was listed after items a poll had merged
C13_Witness ==
    /\ obs.ev = "success"
    /\ obs.resp # <<>>
    /\ "Link" \notin DOMAIN obs.resp.headers
    /\ HeaderOrEmpty(obs.resp, "X-Hits") = <<"3", "a">>
    /\ state.queryCount = 3
    /\ store = <<"g3", "g1", "g2">>

\* the Link header of a response, the empty string when it has none
LinkOrEmpty(resp) ==
    IF "Link" \in DOMAIN resp.headers THEN resp.headers["Link"] ELSE NoLinks

\* the task just done completed the request the newest fetchData() sent: the
\* marker is cleared, and resumePolling() ran once, last, on the state the
\* handler left
CompletedThenResumed ==
    /\ lastRequest' = 0
    /\ Len(obs'.rp) = 1
    /\ obs'.rp[1].realtimeActive = state'.realtimeActive
    /\ obs'.rp[1].pageLinks = state'.pageLinks
    /\ obs'.rp[1].before = poller
    /\ obs'.rp[1].after = poller'

\* C14 as stated: when a list request that was not superseded completes, by
\* success or by failure, the marker is cleared and resumePolling() runs
\* after the handler has updated the state, and after a success it goes by
\* the page links of the response that just completed.
C14_ResumesOnResponseLinks ==
    [][(Answered("success") \/ Answered("error")) =>
        /\ CompletedThenResumed
        /\ Answered("success") => obs'.rp[1].pageLinks = LinkOrEmpty(obs'.resp)]_vars

\* C14 amended: as above, but resumePolling() goes by the page links of the
\* response only when the response was listed; after a direct hit and after
\* a failure, which set no page links, it goes by the page links the state
\* held before.
C14_ResumesOnStateLinks ==
    [][(Answered("success") \/ Answered("error")) =>
        /\ CompletedThenResumed
        /\ obs'.rp[1].pageLinks =
                IF Answered("success") /\ ~IsDirectHit(obs'.resp)
                THEN LinkOrEmpty(obs'.resp)
                ELSE state.pageLinks]_vars

\* a listed response on the newest page completed with realtime on, after a
\* fetch that had cleared a list, and polling resumed on its previous-page link
C14_Witness ==
    /\ obs.ev = "success"
    /\ obs.resp # <<>>
    /\ ~IsDirectHit(obs.resp)
    /\ lastRequest = 0
    /\ obs.rp[1].pageLinks = LinkNewest
    /\ obs.rp[1].before.active = FALSE
    /\ poller.active
    /\ poller.endpoint = PreviousHref(LinkNewest)
    /\ obs.prior # <<>>

\* C15: the displayed group id list is the ordered list of the identifiers
\* the item store holds, and the store reflects the most recently completed
\* fetch that was not superseded plus the poll merges made since: a store
\* reset (a fetchData() call, unmounting) empties the store, the listed
\* response of a fetch that was not superseded leaves the store holding that
\* response's items and no others, a poll merge made since puts its items
\* before them, and no other task changes the store. (Once unmounted the
\* controller displays no list.)
C15_ListReflectsFetch ==
    [][/\ mounted' => state'.groupIds = store'
       /\ IF obs'.fetchCalls > 0 \/ obs'.ev = "unmount"
          THEN store' = <<>>
          ELSE IF ListedResponse
          THEN store' = Ids(obs'.resp.data)
          ELSE IF obs'.ev = "pollSuccess"
          THEN \E r \in PollResponses :
                  /\ PollSucceeds(r)
                  /\ store' = IF poller.active /\ poller.req = "alive"
                              THEN Ids(r.data) \o Without(store, Ids(r.data))
                              ELSE store
          ELSE store' = store]_vars

\* C16: a transitionTo() call pushes its target and sets issuesLoading to
\* true if the target's path or parameters differ from the current
\* location's; if both are equal it pushes nothing and leaves the state, the
\* queued updates included, as it was.
C16_NavigatesOnlyOnChange ==
    [][\A i \in DOMAIN obs'.tt :
        LET c == obs'.tt[i]
            t == transitionTarget(props, c.newParams, c.savedSearch)
        IN  IF t.path # props.location.pathname \/ t.query # props.location.query
            THEN /\ c.pushed
                 /\ c.loading
                 /\ browser' = [op |-> "push", pathname |-> t.path, query |-> t.query]
            ELSE /\ ~c.pushed
                 /\ c.kept
                 /\ browser' = NoNavigation]_vars

\* the sort that the location already has was chosen again: nothing was
\* pushed and nothing fetched
C16_Witness ==
    /\ obs.ev = "sortChange"
    /\ Len(obs.tt) = 1
    /\ ~obs.tt[1].pushed
    /\ obs.tt[1].kept
    /\ obs.fetchCalls = 0
    /\ Get(props.location.query, "sort") = "freq"

\* a sort was chosen that the location did not have: it was pushed
C16_WitnessPushed ==
    /\ obs.ev = "sortChange"
    /\ Len(obs.tt) = 1
    /\ obs.tt[1].pushed
    /\ browser.op = "push"

\* C17: what a transitionTo() call pushes: the endpoint parameters under the
\* call's overrides; for a saved search with an id the saved search's path,
\* the parameters without the query key, and the project replaced by the
\* saved search's project alone if there is no cursor and the saved search has
\* a project; for no saved search, or one without id, the general list path
\* and the parameters as computed.
C17_TransitionTarget ==
    [][\A i \in DOMAIN obs'.tt :
        LET c == obs'.tt[i]
            ss == c.savedSearch
            computed == Spread(getEndpointParams(props), c.newParams)
            pushed == browser'.query
        IN  c.pushed =>
                IF ~ss.isNull /\ Truthy(ss.id)
                THEN /\ browser'.pathname = SavedSearchPath(ss.id)
                     /\ DOMAIN pushed = (DOMAIN computed \ {"query"}) \cup {"project"}
                     /\ \A k \in DOMAIN pushed \ {"project"} : pushed[k] = computed[k]
                     /\ pushed["project"] =
                            IF ~Truthy(Get(computed, "cursor")) /\ Truthy(ss.projectId)
                            THEN ProjectList(ss.projectId)
                            ELSE computed["project"]
                ELSE /\ browser'.pathname = IssuesPath
                     /\ pushed = computed]_vars

\* a saved search with a project was picked: its path was pushed, with its
\* project and without query
C17_Witness ==
    /\ obs.ev = "savedSearchSelect"
    /\ obs.tt[1].savedSearch = SavedSearchA
    /\ obs.tt[1].pushed
    /\ browser.pathname = SavedSearchPath("7")
    /\ browser.query["project"] = "[2]"
    /\ props.selection.projects # "[2]"
    /\ "query" \notin DOMAIN browser.query

\* a page of a saved search with a project was opened: the project of the
\* selection stayed
C17_WitnessCursor ==
    /\ obs.ev = "cursorChange"
    /\ obs.tt[1].savedSearch = SavedSearchA
    /\ obs.tt[1].pushed
    /\ browser.query["cursor"] = "c1"
    /\ browser.query["project"] = props.selection.projects

\* a saved search without project was picked
C17_WitnessOrg ==
    /\ obs.ev = "savedSearchSelect"
    /\ obs.tt[1].savedSearch = SavedSearchOrg
    /\ obs.tt[1].pushed
    /\ browser.query["project"] = props.selection.projects

\* a sort was chosen with no saved search
C17_WitnessList ==
    /\ obs.ev = "sortChange"
    /\ obs.tt[1].savedSearch = NoSavedSearch
    /\ obs.tt[1].pushed
    /\ browser.pathname = IssuesPath
    /\ browser.query["sort"] = "freq"

\* the stats period a location is to give: the groupStatsPeriod of its query
\* if that is 14d, 24h or auto, and 24h otherwise
EffectiveStatsPeriod(p) ==
    LET v == Get(p.location.query, "groupStatsPeriod")
    IN  IF v \in {"14d", "24h", "auto"} THEN v ELSE "24h"

\* C18: the effective stats period is the groupStatsPeriod of the URL when
\* that is 14d, 24h or auto, and the default 24h when it is absent, not a
\* string or another value such as 7d: the endpoint parameters of a fetch
\* name that period when it is not the default, and picking a period
\* navigates exactly when the period picked is not that period.
C18_EffectiveStatsPeriod ==
    [][/\ \A i \in DOMAIN obs'.params :
            Get(obs'.params[i], "groupStatsPeriod") =
                IF EffectiveStatsPeriod(props') = "24h"
                THEN Undefined
                ELSE EffectiveStatsPeriod(props')
       /\ obs'.ev = "selectStatsPeriod" =>
            (Len(obs'.tt) = 1) = (obs'.picked # EffectiveStatsPeriod(props))]_vars

\* at a URL whose groupStatsPeriod is 7d the period 24h was picked: nothing
\* was navigated, 24h being the period in effect
C18_Witness ==
    /\ obs.ev = "selectStatsPeriod"
    /\ obs.picked = "24h"
    /\ Get(props.location.query, "groupStatsPeriod") = "7d"
    /\ obs.tt = <<>>

\* at a URL whose groupStatsPeriod is an array the list was fetched with no
\* groupStatsPeriod
C18_WitnessArray ==
    /\ obs.ev = "savedSearchesLoaded"
    /\ Get(props.location.query, "groupStatsPeriod") = "[14d,24h]"
    /\ Len(obs.params) = 1
    /\ "groupStatsPeriod" \notin DOMAIN obs.params[1]

\* at a URL whose groupStatsPeriod is auto the list was fetched with it
C18_WitnessAuto ==
    /\ obs.ev = "savedSearchesLoaded"
    /\ Len(obs.params) = 1
    /\ Get(obs.params[1], "groupStatsPeriod") = "auto"

\* the parameters hold the relative period p as statsPeriod and not as period
HasStatsPeriod(params, p) ==
    /\ "statsPeriod" \in DOMAIN params
    /\ params["statsPeriod"] = p
    /\ "period" \notin DOMAIN params

\* C19: under a selection with a relative period p the endpoint parameters,
\* those of every fetch and those every transitionTo() call pushes, hold
\* statsPeriod = p and no period key.
C19_RelativePeriod ==
    [][LET p == props'.selection.datetime.period
       IN  Truthy(p) =>
            /\ \A i \in DOMAIN obs'.params : HasStatsPeriod(obs'.params[i], p)
            /\ browser'.op = "push" => HasStatsPeriod(browser'.query, p)]_vars

\* the list was fetched under the selection of the last hour
C19_Witness ==
    /\ obs.ev = "savedSearchesLoaded"
    /\ props.selection = SelRecent
    /\ Len(obs.params) = 1
    /\ obs.params[1]["statsPeriod"] = "1h"
    /\ "period" \notin DOMAIN obs.params[1]

\* the preference a realtimeActive cookie stands for when it is read
Preference(c) == c # Undefined /\ c = "true"

\* C20: the realtime cookie is read at startup, absent meaning off and any
\* value on exactly when it is 'true', and written on every toggle, so that
\* the stored preference is realtimeActive from startup on, whatever the
\* toggles; a toggle flips realtimeActive and writes it as 'true' or
\* 'false', and nothing else writes the cookie or changes realtimeActive.
C20_CookieIsPreference ==
    [][/\ Preference(cookie) = state.realtimeActive
       /\ Preference(cookie') = state'.realtimeActive
       /\ IF obs'.ev \in {"realtimeOn", "realtimeOff"}
          THEN /\ state'.realtimeActive = ~state.realtimeActive
               /\ cookie' = IF state'.realtimeActive THEN "true" ELSE "false"
          ELSE /\ state'.realtimeActive = state.realtimeActive
               /\ cookie' = cookie]_vars

\* realtime was toggled on over a listed page: the cookie says 'true'
C20_Witness ==
    /\ obs.ev = "realtimeOn"
    /\ cookie = "true"
    /\ state.realtimeActive
    /\ poller.active
    /\ store # <<>>

\* the controller started with a cookie that is neither 'true' nor 'false':
\* realtime is off
C20_WitnessOther ==
    /\ obs.ev = "savedSearchesLoaded"
    /\ cookie = "1"
    /\ ~state.realtimeActive

\* C21: whenever the poller is enabled, realtime is active, the page links
\* are not empty and the previous-page link of the page links reports no
\* further results.
C21_PollsOnlyNewestPage ==
    poller.active => ShouldPoll(state.realtimeActive, state.pageLinks)

\* the task just done ran the callbacks of the request the newest fetchData()
\* sent, and the response was a failure or a success that is no direct hit
ResponseArrived ==
    \/ Answered("error")
    \/ Answered("success") /\ ~IsDirectHit(obs'.resp)

\* C22: when the response to the request of a fetchData() call that was not
\* superseded arrives, a failure or a success that is no direct hit, the
\* controller is left with issuesLoading false and with no in-flight-request
\* marker: it does not stay in the loading state once its last request has
\* completed, and the task sends no further request.
C22_CompletionEndsLoading ==
    [][ResponseArrived =>
        /\ state.issuesLoading
        /\ ~state'.issuesLoading
        /\ lastRequest' = 0
        /\ issued' = 0
        /\ obs'.fetchCalls = 0]_vars

\* the request of a fetch that superseded an earlier one was answered with a
\* list: the controller stopped loading and holds no marker
C22_Witness ==
    /\ obs.ev = "success"
    /\ obs.resp # <<>>
    /\ ~IsDirectHit(obs.resp)
    /\ mounted
    /\ ~state.issuesLoading
    /\ lastRequest = 0
    /\ state.groupIds # <<>>
    /\ \E i \in DOMAIN requests : requests[i] = "dead"

\* the request of a fetch failed: the controller stopped loading, shows the
\* error and holds no marker
C22_WitnessFailure ==
    /\ obs.ev = "error"
    /\ mounted
    /\ state.error # Null
    /\ ~state.issuesLoading
    /\ lastRequest = 0
    /\ Alive = {}

\* C23: a search for the query the controller is showing fetches the list
\* again, with a fetchData() call and without navigating; a search for
\* another query calls transitionTo({query: q}, null), which clears the saved
\* search.
C23_SearchRefetchesOrNavigates ==
    [][obs'.ev = "search" =>
        IF obs'.picked = getQuery(props)
        THEN obs'.fetchCalls >= 1
        ELSE /\ Len(obs'.tt) = 1
             /\ obs'.tt[1].newParams = [query |-> obs'.picked]
             /\ obs'.tt[1].savedSearch = NoSavedSearch]_vars

\* the poller is disabled, the item store is empty and no request, of the
\* list or of the poller, is left whose callbacks will run
TornDown ==
    /\ ~poller.active
    /\ poller.req # "alive"
    /\ store = <<>>
    /\ Alive = {}

\* C24: when the controller unmounts the poller is disabled, the item store
\* is reset and the outstanding requests are cleared; and in every state from
\* then on, whatever events follow, the late completion of a list request and
\* a late poll result among them, the poller is still disabled and the item
\* store still empty.
C24_TornDownForGood ==
    /\ obs.ev = "unmount" => ~mounted
    /\ ~mounted => TornDown

\* the controller unmounted while it was polling and a list request was
\* outstanding
C24_Witness ==
    /\ obs.ev = "unmount"
    /\ ~mounted
    /\ poller.req = "dead"
    /\ state.groupIds # <<>>
    /\ issued # 0
    /\ requests[issued] = "dead"
    /\ store = <<>>

\* the list request that was outstanding at the unmount was answered later
C24_WitnessLateFetch ==
    /\ ~mounted
    /\ obs.ev \in {"success", "error"}
    /\ state.issuesLoading
    /\ store = <<>>

\* the poll that was under way at the unmount returned later
C24_WitnessLatePoll ==
    /\ ~mounted
    /\ obs.ev = "pollSuccess"
    /\ poller.req = "none"
    /\ state.realtimeActive
    /\ store = <<>>
====
